---- MODULE Spec2Model ----
(***************************************************************************)
(* A model of the snake game of src/main.cpp: the game-state machine       *)
(* (Application::onKeyDown and the menu handlers), the simulation step     *)
(* (Application::update, handleCollision, resetGame) and the entity        *)
(* spawner (spawnFood, spawnObstacles), driven by the frame loop of        *)
(* Application::run.                                                       *)
(*                                                                         *)
(* The canvas of the source is 800 x 600 with 20-pixel cells (40 x 30      *)
(* cells).  The model keeps the cell size and the shape of the canvas (an  *)
(* even number of columns and rows, so that the centre is a cell) and      *)
(* checks a canvas of 2*HalfCols x 2*HalfRows cells.                       *)
(*                                                                         *)
(* Rendering, sound, the grass field and animationTime do not feed back    *)
(* into the state machine or the simulation and are left out.              *)
(***************************************************************************)
EXTENDS Integers, Sequences, FiniteSets

\* ------------------------------------------------------------------------
\* Bounds of the model
\* ------------------------------------------------------------------------
HalfCols == 2
HalfRows == 1
MaxFood == 2
MaxObstacles == 1
MaxScore == 2
MaxSnakeSpeed == 3
MaxAmplitude == 1
MaxWaveSpeed == 1
\* a spawn call's random draws fall on at most MaxSpread distinct cells
MaxSpread == 2
\* std::rand() % (SCREEN_HEIGHT / GRID_SIZE) takes MaxRandRows values, from
\* the row of the centre on
MaxRandRows == 1
\* the bursts a run that keeps the sparkles holds at a time
MaxBursts == 1

\* ------------------------------------------------------------------------
\* Constants of the program
\* ------------------------------------------------------------------------
GRID_SIZE == 20
SCREEN_WIDTH == 2 * HalfCols * GRID_SIZE
SCREEN_HEIGHT == 2 * HalfRows * GRID_SIZE

\* spawnObstacles(5) after eating
OneObstacleShort == 5 - 1
ObstaclesPerFood == 5
\* handleCollision(): for (int i = 0; i < 20; ++i)
SparklesPerBurst == 20
\* sp.life = 1.0f, in steps of 0.05f
FullLife == 20
\* snakeSpeed kept at 1 when sped up from 1 or less
SpeedKeptAtOne == 2 - 1
\* the value snakeSpeed takes when sped up from 1 or less
SpeedSentinel == 0 - 20

MAIN_MENU == "MAIN_MENU"
CONFIG_MENU == "CONFIG_MENU"
MODE_MENU == "MODE_MENU"
PLAYING == "PLAYING"
PAUSED == "PAUSED"
QUIT == "QUIT"
GameState == {MAIN_MENU, CONFIG_MENU, MODE_MENU, PLAYING, PAUSED, QUIT}

\* enum class ConfigOption, by value
SPEED == 0
NUM_FOOD == 1
NUM_OBSTACLES == 2
AMPLITUDE == 3
WAVE_SPEED == 4
EXIT == 5

NORMAL == "NORMAL"
FLASHLIGHT == "FLASHLIGHT"

\* The keys onKeyDown distinguishes (w, s, a, d share the cases of the
\* arrows); OTHER is any key of the default case.
Keys == {"ESCAPE", "UP", "DOWN", "LEFT", "RIGHT", "RETURN", "OTHER"}

VARIABLES
    state, gameMode, running,
    snake, foodItems, obstacles, direction, score, highScore,
    selectedOption, pauseMenuOption, configOption, modeMenuOption,
    snakeSpeed, numFoodItems, numObstacles, grassWaveSpeed, grassWaveAmplitude,
    pc,                \* position in run(): "events", "update", "done", "spawning"
    lastAdvance,       \* history: what the last advance of this session did
    seed,              \* the kind of sequence std::rand() yields in this run
    sparkles,          \* std::vector<Sparkle>, each [x, y, life]
    sparklesFollowed   \* whether this run keeps the sparkles (render() alone
                       \* reads them; a run that does not look at them
                       \* leaves the list empty)

vars == <<state, gameMode, running, snake, foodItems, obstacles, direction,
          score, highScore, selectedOption, pauseMenuOption, configOption,
          modeMenuOption, snakeSpeed, numFoodItems, numObstacles,
          grassWaveSpeed, grassWaveAmplitude, pc, lastAdvance, seed, sparkles,
          sparklesFollowed>>

menuVars == <<selectedOption, pauseMenuOption, configOption, modeMenuOption>>
configVars == <<snakeSpeed, numFoodItems, numObstacles, grassWaveSpeed,
                grassWaveAmplitude>>
\* the configuration values in the order of enum class ConfigOption
ConfigValues == <<snakeSpeed, numFoodItems, numObstacles, grassWaveAmplitude,
                  grassWaveSpeed>>

\* ------------------------------------------------------------------------
\* Points and the grid
\* ------------------------------------------------------------------------
Point(px, py) == [x |-> px, y |-> py]

Cells == {Point(cx * GRID_SIZE, cy * GRID_SIZE) :
            cx \in 0..(SCREEN_WIDTH \div GRID_SIZE - 1),
            cy \in 0..(SCREEN_HEIGHT \div GRID_SIZE - 1)}

Centre == Point(SCREEN_WIDTH \div 2, SCREEN_HEIGHT \div 2)

NoDirection == Point(0, 0)
Directions == {Point(1, 0), Point(0 - 1, 0), Point(0, 1), Point(0, 0 - 1)}
Opposite(d) == Point(0 - d.x, 0 - d.y)

\* The values of the history variable: no advance since the game was started,
\* a collision with an obstacle or with the snake itself (which began this
\* session), or a move or an eat in direction dir.
NoAdvance == [kind |-> "none", dir |-> NoDirection]
Collided == [kind |-> "collision", dir |-> NoDirection]
CollidedWithItself == [kind |-> "self", dir |-> NoDirection]
Moved(d) == [kind |-> "move", dir |-> d]
Ate(d) == [kind |-> "eat", dir |-> d]

\* A std::vector<Point> whose order the program never observes (foodItems,
\* obstacles: only membership and size are read) is kept as the number of
\* entries at each cell.
EmptyList == [c \in Cells |-> 0]
RECURSIVE SumOver(_, _)
SumOver(f, S) ==
    IF S = {} THEN 0
    ELSE LET c == CHOOSE c \in S : TRUE IN f[c] + SumOver(f, S \ {c})
Size(list) == SumOver(list, Cells)
CellsOf(list) == {c \in Cells : list[c] > 0}
SnakeCells(s) == {s[i] : i \in 1..Len(s)}

\* ------------------------------------------------------------------------
\* Uint32 arithmetic of the movement timer.  A Uint32 is kept as two 16-bit
\* digits <<high, low>>.
\* ------------------------------------------------------------------------
\* (Uint32)n for an int n
ToUint32(n) ==
    IF n >= 0 THEN <<n \div 65536, n % 65536>>
    ELSE LET m == (0 - n) - 1
         IN <<65535 - (m \div 65536), 65535 - (m % 65536)>>

U32Less(a, b) == a[1] < b[1] \/ (a[1] = b[1] /\ a[2] < b[2])

\* The values currentTime - lastMoveTime takes in the frames of the model:
\* SDL_GetTicks() is an input, and lastMoveTime is read in this difference
\* only, so the difference is drawn directly.
ElapsedTimes == {ToUint32(0), ToUint32(1), ToUint32(0 - 1)}

\* update(): the early return while the movement timer has not elapsed
TimerWaits(elapsed, speed) == U32Less(elapsed, ToUint32(speed))

\* ------------------------------------------------------------------------
\* The entity spawner
\* ------------------------------------------------------------------------
AddAt(list, c) == [list EXCEPT ![c] = @ + 1]
Plus(l1, l2) == [c \in Cells |-> l1[c] + l2[c]]

\* the lists of n entries, all at cells of S
RECURSIVE Multisets(_, _)
Multisets(S, n) ==
    IF n = 0 THEN {EmptyList}
    ELSE {AddAt(m, c) : m \in Multisets(S, n - 1), c \in S}

\* the cells the draws of the model land on
RandCells ==
    {c \in Cells : c.y \div GRID_SIZE \in HalfRows..(HalfRows + MaxRandRows - 1)}

\* std::srand(time) picks the sequence of the run.  Two kinds of sequence
\* are followed: NARROW, the draws of a spawn call land on at most MaxSpread
\* distinct cells, all in RandCells; DENSE, the draws of a spawn call land on
\* as many distinct cells as the call has entries and free cells.
NARROW == "NARROW"
DENSE == "DENSE"

Min(a, b) == IF a < b THEN a ELSE b

\* the lists n accepted draws can give when every draw lands in free
Draws(free, n) ==
    IF seed = DENSE
    THEN {m \in Multisets(free, n) :
            Cardinality(CellsOf(m)) = Min(n, Cardinality(free))}
    ELSE UNION {{m \in Multisets(T, n) : CellsOf(m) = T} :
                  T \in {U \in SUBSET (free \cap RandCells) :
                           Cardinality(U) <= MaxSpread}}

\* spawnFood() with its loop ending one entry early
spawnFoodOneShort(s, food, obs, numFood) ==
    LET free == Cells \ (SnakeCells(s) \cup CellsOf(obs))
    IN  IF numFood <= 0 THEN {[list |-> food, hung |-> FALSE]}
        ELSE IF free = {} THEN {[list |-> food, hung |-> TRUE]}
        ELSE {[list |-> Plus(food, m), hung |-> FALSE] :
                m \in Draws(free, numFood - 1)}

\* spawnFood(): numFood cells, each redrawn until it is neither a snake
\* cell nor an obstacle cell.  The result is the set of outcomes
\* [list, hung]; hung: no cell passes the test and the loop never ends.
spawnFood(s, food, obs, numFood) ==
    LET free == Cells \ (SnakeCells(s) \cup CellsOf(obs))
    IN  IF numFood <= 0 THEN {[list |-> food, hung |-> FALSE]}
        ELSE IF free = {} THEN {[list |-> food, hung |-> TRUE]}
        ELSE {[list |-> Plus(food, m), hung |-> FALSE] : m \in Draws(free, numFood)}

\* spawnObstacles without its food loop
spawnObstaclesNoFoodTest(s, food, obs, count) ==
    LET free == Cells \ SnakeCells(s)
    IN  IF count <= 0 THEN {[list |-> obs, hung |-> FALSE]}
        ELSE IF free = {} THEN {[list |-> obs, hung |-> TRUE]}
        ELSE {[list |-> Plus(obs, m), hung |-> FALSE] : m \in Draws(free, count)}

\* spawnObstacles(count): count cells, each redrawn until it is neither a
\* snake cell nor a food cell.
spawnObstacles(s, food, obs, count) ==
    LET free == Cells \ (SnakeCells(s) \cup CellsOf(food))
    IN  IF count <= 0 THEN {[list |-> obs, hung |-> FALSE]}
        ELSE IF free = {} THEN {[list |-> obs, hung |-> TRUE]}
        ELSE {[list |-> Plus(obs, m), hung |-> FALSE] : m \in Draws(free, count)}

\* resetGame without obstacles.clear()
resetGameNoClear ==
    LET s == <<Centre>>
        out(f, o, h) == [snake |-> s, direction |-> Point(1, 0), score |-> 0,
                         food |-> f, obstacles |-> o, hung |-> h]
    IN  UNION {IF f.hung THEN {out(f.list, obstacles, TRUE)}
               ELSE {out(f.list, o.list, o.hung) :
                       o \in spawnObstacles(s, f.list, obstacles, numObstacles)} :
               f \in spawnFood(s, EmptyList, EmptyList, numFoodItems)}

\* resetGame() without score = 0
resetGameKeepsScore ==
    LET s == <<Centre>>
        out(f, o, h) == [snake |-> s, direction |-> Point(1, 0), score |-> score,
                         food |-> f, obstacles |-> o, hung |-> h]
    IN  UNION {IF f.hung THEN {out(f.list, EmptyList, TRUE)}
               ELSE {out(f.list, o.list, o.hung) :
                       o \in spawnObstacles(s, f.list, EmptyList, numObstacles)} :
               f \in spawnFood(s, EmptyList, EmptyList, numFoodItems)}

\* resetGame(): the outcomes [snake, direction, score, food, obstacles, hung]
resetGame ==
    LET s == <<Centre>>
        out(f, o, h) == [snake |-> s, direction |-> Point(1, 0), score |-> 0,
                         food |-> f, obstacles |-> o, hung |-> h]
    IN  UNION {IF f.hung THEN {out(f.list, EmptyList, TRUE)}
               ELSE {out(f.list, o.list, o.hung) :
                       o \in spawnObstacles(s, f.list, EmptyList, numObstacles)} :
               f \in spawnFood(s, EmptyList, EmptyList, numFoodItems)}

ApplyReset(r) ==
    /\ snake' = r.snake
    /\ direction' = r.direction
    /\ score' = r.score
    /\ foodItems' = r.food
    /\ obstacles' = r.obstacles

\* ------------------------------------------------------------------------
\* Init: the state the constructor leaves, with the five configuration
\* values at small values the configuration menu reaches from the defaults
\* (100, 10, 15, 0.05f, 15.0f).  grassWaveAmplitude counts units of 1.0f and
\* grassWaveSpeed units of 0.01f.
\* ------------------------------------------------------------------------
Constructed ==
    /\ state = MAIN_MENU
    /\ gameMode = NORMAL
    /\ running = TRUE
    /\ snake = <<>>
    /\ sparkles = <<>>
    /\ foodItems = EmptyList
    /\ obstacles = EmptyList
    /\ direction = Point(1, 0)
    /\ score = 0
    /\ highScore = 0
    /\ selectedOption = 0
    /\ pauseMenuOption = 0
    /\ configOption = 0
    /\ modeMenuOption = 0
    /\ pc = "events"
    /\ lastAdvance = NoAdvance

\* A board with food is played at the positive interval 1; the intervals 0
\* and -20 (the sentinel) are played on an empty board.
Init ==
    /\ Constructed
    /\ \/ /\ snakeSpeed = 1
          /\ numFoodItems = MaxFood
          /\ numObstacles \in 0..MaxObstacles
       \/ /\ snakeSpeed \in {SpeedSentinel, 0}
          /\ numFoodItems = 0
          /\ numObstacles = 0
    /\ grassWaveSpeed = 1
    /\ grassWaveAmplitude = 1
    /\ seed = NARROW
    /\ sparklesFollowed = FALSE

\* The menus are walked with an empty board.
InitMenu ==
    /\ Constructed
    /\ snakeSpeed = 1
    /\ numFoodItems = 0
    /\ numObstacles = 0
    /\ grassWaveSpeed = 1
    /\ grassWaveAmplitude = 1
    /\ seed = NARROW
    /\ sparklesFollowed = FALSE

\* ------------------------------------------------------------------------
\* onKeyDown
\* ------------------------------------------------------------------------
\* case SDLK_ESCAPE with PAUSED leaving for the main menu
EscapeTargetLeaves(st) ==
    IF st = PLAYING THEN PAUSED
    ELSE IF st \in {PAUSED, CONFIG_MENU, MODE_MENU} THEN MAIN_MENU
    ELSE st

\* case SDLK_ESCAPE
EscapeTarget(st) ==
    IF st = PLAYING THEN PAUSED
    ELSE IF st = PAUSED THEN PLAYING
    ELSE IF st \in {CONFIG_MENU, MODE_MENU} THEN MAIN_MENU
    ELSE st

\* a directional key while PLAYING taken whatever the direction is
SteerUntested(key, dir) ==
    CASE key = "UP" -> Point(0, 0 - 1)
      [] key = "DOWN" -> Point(0, 1)
      [] key = "LEFT" -> Point(0 - 1, 0)
      [] key = "RIGHT" -> Point(1, 0)
      [] OTHER -> dir

\* the direction after a directional key while PLAYING
Steer(key, dir) ==
    CASE key = "UP" -> IF dir.y = 0 THEN Point(0, 0 - 1) ELSE dir
      [] key = "DOWN" -> IF dir.y = 0 THEN Point(0, 1) ELSE dir
      [] key = "LEFT" -> IF dir.x = 0 THEN Point(0 - 1, 0) ELSE dir
      [] key = "RIGHT" -> IF dir.x = 0 THEN Point(1, 0) ELSE dir
      [] OTHER -> dir

\* UP stopping at the first item of the main and the configuration menu
IndexUpStops(st, sel, pause, cfg, mode) ==
    CASE st = MAIN_MENU -> <<IF sel = 0 THEN 0 ELSE sel - 1, pause, cfg, mode>>
      [] st = PAUSED -> <<sel, IF pause = 0 THEN 1 ELSE 0, cfg, mode>>
      [] st = CONFIG_MENU -> <<sel, pause, IF cfg = 0 THEN 0 ELSE cfg - 1, mode>>
      [] st = MODE_MENU -> <<sel, pause, cfg, IF mode = 0 THEN 1 ELSE 0>>
      [] OTHER -> <<sel, pause, cfg, mode>>

\* the highlighted index of each menu after UP
IndexUp(st, sel, pause, cfg, mode) ==
    CASE st = MAIN_MENU -> <<(sel + 3) % 4, pause, cfg, mode>>
      [] st = PAUSED -> <<sel, IF pause = 0 THEN 1 ELSE 0, cfg, mode>>
      [] st = CONFIG_MENU -> <<sel, pause, IF cfg = 0 THEN EXIT ELSE cfg - 1, mode>>
      [] st = MODE_MENU -> <<sel, pause, cfg, IF mode = 0 THEN 1 ELSE 0>>
      [] OTHER -> <<sel, pause, cfg, mode>>

\* the highlighted index of each menu after DOWN
IndexDown(st, sel, pause, cfg, mode) ==
    CASE st = MAIN_MENU -> <<(sel + 1) % 4, pause, cfg, mode>>
      [] st = PAUSED -> <<sel, IF pause = 0 THEN 1 ELSE 0, cfg, mode>>
      [] st = CONFIG_MENU -> <<sel, pause, (cfg + 1) % (EXIT + 1), mode>>
      [] st = MODE_MENU -> <<sel, pause, cfg, IF mode = 0 THEN 1 ELSE 0>>
      [] OTHER -> <<sel, pause, cfg, mode>>

\* mainMenuSelection with the cases of Config and Game Mode exchanged
MainMenuTargetExchanged(sel) ==
    CASE sel = 1 -> MODE_MENU
      [] sel = 2 -> CONFIG_MENU
      [] sel = 3 -> QUIT
      [] OTHER -> MAIN_MENU

\* mainMenuSelection(): the state it sets for every item but Start
MainMenuTarget(sel) ==
    CASE sel = 1 -> CONFIG_MENU
      [] sel = 2 -> MODE_MENU
      [] sel = 3 -> QUIT
      [] OTHER -> MAIN_MENU

\* RETURN while PAUSED resuming whatever is highlighted
PauseTargetResume(pause) == PLAYING

\* case SDLK_RETURN while PAUSED
PauseTarget(pause) == IF pause = 0 THEN PLAYING ELSE MAIN_MENU

\* modeSelection() with the two modes exchanged
ModeOfExchanged(mode) == IF mode = 0 THEN FLASHLIGHT ELSE NORMAL

\* modeSelection(): the game mode it commits
ModeOf(mode) == IF mode = 0 THEN NORMAL ELSE FLASHLIGHT

\* startGame() without resetGame()
startGameWithoutReset ==
    /\ state' = PLAYING
    /\ lastAdvance' = NoAdvance
    /\ UNCHANGED <<gameMode, running, snake, foodItems, obstacles, direction,
                   score, highScore, menuVars, configVars, pc>>

\* startGame() setting the obstacle count back to 0 after the reset
startGameClearsCount ==
    \E r \in resetGame :
        /\ state' = PLAYING
        /\ ApplyReset(r)
        /\ lastAdvance' = NoAdvance
        /\ pc' = IF r.hung THEN "spawning" ELSE pc
        /\ numObstacles' = 0
        /\ UNCHANGED <<gameMode, running, highScore, menuVars, snakeSpeed,
                       numFoodItems, grassWaveSpeed, grassWaveAmplitude>>

\* startGame(): state = PLAYING; resetGame()
startGame ==
    \E r \in resetGame :
        /\ state' = PLAYING
        /\ ApplyReset(r)
        /\ lastAdvance' = NoAdvance
        /\ pc' = IF r.hung THEN "spawning" ELSE pc
        /\ UNCHANGED <<gameMode, running, highScore, menuVars, configVars>>

\* adjustConfigOption(increase) without the tests that keep the counts, the
\* amplitude and the wave speed at 0
adjustConfigOptionNoFloor(increase) ==
    /\ CASE configOption = SPEED ->
              /\ snakeSpeed' = IF increase
                               THEN (IF snakeSpeed > 1 THEN snakeSpeed - 1
                                     ELSE SpeedSentinel)
                               ELSE snakeSpeed + 1
              /\ snakeSpeed' <= MaxSnakeSpeed
              /\ UNCHANGED <<numFoodItems, numObstacles, grassWaveAmplitude,
                             grassWaveSpeed, state>>
         [] configOption = NUM_FOOD ->
              /\ numFoodItems' = IF increase THEN numFoodItems + 1
                                 ELSE numFoodItems - 1
              /\ numFoodItems' <= MaxFood
              /\ UNCHANGED <<snakeSpeed, numObstacles, grassWaveAmplitude,
                             grassWaveSpeed, state>>
         [] configOption = NUM_OBSTACLES ->
              /\ numObstacles' = IF increase THEN numObstacles + 1
                                 ELSE numObstacles - 1
              /\ numObstacles' <= MaxObstacles
              /\ UNCHANGED <<snakeSpeed, numFoodItems, grassWaveAmplitude,
                             grassWaveSpeed, state>>
         [] configOption = AMPLITUDE ->
              /\ grassWaveAmplitude' = IF increase THEN grassWaveAmplitude + 1
                                       ELSE grassWaveAmplitude - 1
              /\ grassWaveAmplitude' <= MaxAmplitude
              /\ UNCHANGED <<snakeSpeed, numFoodItems, numObstacles,
                             grassWaveSpeed, state>>
         [] configOption = WAVE_SPEED ->
              /\ grassWaveSpeed' = IF increase THEN grassWaveSpeed + 1
                                   ELSE grassWaveSpeed - 1
              /\ grassWaveSpeed' <= MaxWaveSpeed
              /\ UNCHANGED <<snakeSpeed, numFoodItems, numObstacles,
                             grassWaveAmplitude, state>>
         [] OTHER ->
              /\ state' = MAIN_MENU
              /\ UNCHANGED configVars
    /\ UNCHANGED <<gameMode, running, snake, foodItems, obstacles, direction,
                   score, highScore, menuVars, pc, lastAdvance>>

\* adjustConfigOption(increase).  An increase beyond the bounds of the model
\* is not taken.
adjustConfigOption(increase) ==
    /\ CASE configOption = SPEED ->
              /\ snakeSpeed' = IF increase
                               THEN (IF snakeSpeed > 1 THEN snakeSpeed - 1
                                     ELSE SpeedSentinel)
                               ELSE snakeSpeed + 1
              /\ snakeSpeed' <= MaxSnakeSpeed
              /\ UNCHANGED <<numFoodItems, numObstacles, grassWaveAmplitude,
                             grassWaveSpeed, state>>
         [] configOption = NUM_FOOD ->
              /\ numFoodItems' = IF increase THEN numFoodItems + 1
                                 ELSE IF numFoodItems > 0 THEN numFoodItems - 1
                                 ELSE numFoodItems
              /\ numFoodItems' <= MaxFood
              /\ UNCHANGED <<snakeSpeed, numObstacles, grassWaveAmplitude,
                             grassWaveSpeed, state>>
         [] configOption = NUM_OBSTACLES ->
              /\ numObstacles' = IF increase THEN numObstacles + 1
                                 ELSE IF numObstacles > 0 THEN numObstacles - 1
                                 ELSE numObstacles
              /\ numObstacles' <= MaxObstacles
              /\ UNCHANGED <<snakeSpeed, numFoodItems, grassWaveAmplitude,
                             grassWaveSpeed, state>>
         [] configOption = AMPLITUDE ->
              /\ grassWaveAmplitude' = IF increase THEN grassWaveAmplitude + 1
                                       ELSE IF grassWaveAmplitude - 1 > 0
                                       THEN grassWaveAmplitude - 1 ELSE 0
              /\ grassWaveAmplitude' <= MaxAmplitude
              /\ UNCHANGED <<snakeSpeed, numFoodItems, numObstacles,
                             grassWaveSpeed, state>>
         [] configOption = WAVE_SPEED ->
              /\ grassWaveSpeed' = IF increase THEN grassWaveSpeed + 1
                                   ELSE IF grassWaveSpeed - 1 > 0
                                   THEN grassWaveSpeed - 1 ELSE 0
              /\ grassWaveSpeed' <= MaxWaveSpeed
              /\ UNCHANGED <<snakeSpeed, numFoodItems, numObstacles,
                             grassWaveAmplitude, state>>
         [] OTHER ->
              /\ state' = MAIN_MENU
              /\ UNCHANGED configVars
    /\ UNCHANGED <<gameMode, running, snake, foodItems, obstacles, direction,
                   score, highScore, menuVars, pc, lastAdvance>>

onKeyDown(key) ==
    CASE key = "ESCAPE" ->
           /\ state' = EscapeTarget(state)
           /\ UNCHANGED <<gameMode, running, snake, foodItems, obstacles,
                          direction, score, highScore, menuVars, configVars,
                          pc, lastAdvance>>
      [] key \in {"UP", "DOWN"} ->
           /\ LET idx == IF key = "UP"
                         THEN IndexUp(state, selectedOption, pauseMenuOption,
                                      configOption, modeMenuOption)
                         ELSE IndexDown(state, selectedOption, pauseMenuOption,
                                        configOption, modeMenuOption)
              IN  /\ selectedOption' = idx[1]
                  /\ pauseMenuOption' = idx[2]
                  /\ configOption' = idx[3]
                  /\ modeMenuOption' = idx[4]
           /\ direction' = IF state = PLAYING THEN Steer(key, direction)
                           ELSE direction
           /\ UNCHANGED <<state, gameMode, running, snake, foodItems, obstacles,
                          score, highScore, configVars, pc, lastAdvance>>
      [] key \in {"LEFT", "RIGHT"} /\ state = CONFIG_MENU ->
           adjustConfigOption(key = "RIGHT")
      [] key \in {"LEFT", "RIGHT"} /\ state # CONFIG_MENU ->
           /\ direction' = IF state = PLAYING THEN Steer(key, direction)
                           ELSE direction
           /\ UNCHANGED <<state, gameMode, running, snake, foodItems, obstacles,
                          score, highScore, menuVars, configVars, pc,
                          lastAdvance>>
      [] key = "RETURN" /\ state = MAIN_MENU /\ selectedOption = 0 ->
           startGame
      [] key = "RETURN" /\ state = MODE_MENU ->
           /\ gameMode' = ModeOf(modeMenuOption)
           /\ state' = MAIN_MENU
           /\ UNCHANGED <<running, snake, foodItems, obstacles, direction, score,
                          highScore, menuVars, configVars, pc, lastAdvance>>
      [] key = "RETURN" /\ ~(state = MAIN_MENU /\ selectedOption = 0)
                        /\ state # MODE_MENU ->
           /\ state' = CASE state = MAIN_MENU -> MainMenuTarget(selectedOption)
                         [] state = PAUSED -> PauseTarget(pauseMenuOption)
                         [] OTHER -> state
           /\ UNCHANGED <<gameMode, running, snake, foodItems, obstacles,
                          direction, score, highScore, menuVars, configVars, pc,
                          lastAdvance>>
      [] OTHER -> UNCHANGED vars

\* ------------------------------------------------------------------------
\* update, handleCollision
\* ------------------------------------------------------------------------
\* Wrap that comes back in on the second cell instead of the first
WrapSkipsCell(v, limit) ==
    IF v < 0 THEN limit - GRID_SIZE
    ELSE IF v >= limit THEN GRID_SIZE
    ELSE v

\* the wrap of one coordinate: below 0 to the last cell, at or beyond the
\* limit to 0
Wrap(v, limit) ==
    IF v < 0 THEN limit - GRID_SIZE
    ELSE IF v >= limit THEN 0
    ELSE v

NewHead(head, dir) ==
    Point(Wrap(head.x + dir.x * GRID_SIZE, SCREEN_WIDTH),
          Wrap(head.y + dir.y * GRID_SIZE, SCREEN_HEIGHT))

\* snake.insert(snake.begin(), newHead)
Insert(s, newHead) == <<newHead>> \o s

\* pop_back left out
PopBackLeftOut(s) == s

\* snake.pop_back()
PopBack(s) == SubSeq(s, 1, Len(s) - 1)

\* update() without its loop over the segments
CollidesWithObstacles(newHead, s, obs) == obs[newHead] > 0

\* update() with the loop over the segments stopping before the last one
CollidesExceptTail(newHead, s, obs) ==
    \/ \E i \in 1..(Len(s) - 1) : s[i] = newHead
    \/ obs[newHead] > 0

\* the two collision loops of update()
Collides(newHead, s, obs) == newHead \in SnakeCells(s) \/ obs[newHead] > 0

\* std::find(foodItems.begin(), foodItems.end(), newHead) != foodItems.end()
FindsFood(food, newHead) == food[newHead] > 0

\* highScore = score without the test
RaiseHighScoreUntested(sc, hs) == sc

\* if (score > highScore) highScore = score
RaiseHighScore(sc, hs) == IF sc > hs THEN sc ELSE hs

\* while (running)
LoopTestRunningOnly(run, st) == IF run THEN "events" ELSE "done"

\* while (running && state != GameState::QUIT)
LoopTest(run, st) == IF run /\ st # QUIT THEN "events" ELSE "done"

\* Sparkle.  life counts steps of 0.05f: 1.0f is FullLife steps, and in
\* float arithmetic the 20th subtraction of 0.05f from 1.0f is the first to
\* give a value <= 0.f (-1.56e-7).
Sparkle(x, y, life) == [x |-> x, y |-> y, life |-> life]

\* handleCollision(): the sparkles pushed at the centre of the head's cell
Burst(sp, head) ==
    sp \o [i \in 1..SparklesPerBurst |->
             Sparkle(head.x + GRID_SIZE \div 2, head.y + GRID_SIZE \div 2,
                     FullLife)]

\* the end of update(): sp.life -= 0.05f, then erase those with life <= 0.f
Fade(sp) ==
    SelectSeq([i \in 1..Len(sp) |-> [sp[i] EXCEPT !.life = @ - 1]],
              LAMBDA p : p.life > 0)

\* the frame ends here while the state is not PLAYING
UpdateIdle ==
    /\ pc = "update"
    /\ state # PLAYING
    /\ pc' = LoopTest(running, state)
    /\ UNCHANGED <<state, gameMode, running, snake, foodItems, obstacles,
                   direction, score, highScore, menuVars, configVars,
                   lastAdvance, seed, sparkles, sparklesFollowed>>

\* ... and here while the movement timer has not elapsed
UpdateWait ==
    /\ pc = "update"
    /\ state = PLAYING
    /\ \E elapsed \in ElapsedTimes : TimerWaits(elapsed, snakeSpeed)
    /\ pc' = LoopTest(running, state)
    /\ UNCHANGED <<state, gameMode, running, snake, foodItems, obstacles,
                   direction, score, highScore, menuVars, configVars,
                   lastAdvance, seed, sparkles, sparklesFollowed>>

\* update() without its return while the state is PAUSED
AdvancingWhilePaused ==
    /\ pc = "update"
    /\ state \in {PLAYING, PAUSED}
    /\ \E elapsed \in ElapsedTimes : ~TimerWaits(elapsed, snakeSpeed)
    /\ snake # <<>>

\* the advance is due in this frame
Advancing ==
    /\ pc = "update"
    /\ state = PLAYING
    /\ \E elapsed \in ElapsedTimes : ~TimerWaits(elapsed, snakeSpeed)
    /\ snake # <<>>

\* the new head is on a segment or an obstacle: handleCollision()
AdvanceCollision ==
    /\ Advancing
    /\ Collides(NewHead(snake[1], direction), snake, obstacles)
    /\ \E r \in resetGame :
          /\ ApplyReset(r)
          /\ pc' = IF r.hung THEN "spawning" ELSE LoopTest(running, state)
    /\ highScore' = RaiseHighScore(score, highScore)
    /\ lastAdvance' = IF NewHead(snake[1], direction) \in SnakeCells(snake)
                       THEN CollidedWithItself ELSE Collided
    /\ sparkles' = IF sparklesFollowed THEN Burst(sparkles, snake[1])
                   ELSE sparkles
    /\ UNCHANGED <<state, gameMode, running, menuVars, configVars, seed,
                   sparklesFollowed>>

\* the new head is on food: the snake grows, the food is replaced and five
\* obstacles are added.  The score is capped at MaxScore.
AdvanceEat ==
    /\ Advancing
    /\ score < MaxScore
    /\ LET newHead == NewHead(snake[1], direction)
           grown == Insert(snake, newHead)
       IN  /\ ~Collides(newHead, snake, obstacles)
           /\ FindsFood(foodItems, newHead)
           /\ snake' = grown
           /\ score' = score + 1
           /\ highScore' = RaiseHighScore(score + 1, highScore)
           /\ \E f \in spawnFood(grown, EmptyList, obstacles, numFoodItems) :
                 /\ foodItems' = f.list
                 /\ IF f.hung
                    THEN /\ obstacles' = obstacles
                         /\ pc' = "spawning"
                    ELSE \E o \in spawnObstacles(grown, f.list, obstacles,
                                                 ObstaclesPerFood) :
                            /\ obstacles' = o.list
                            /\ pc' = IF o.hung THEN "spawning"
                                     ELSE LoopTest(running, state)
    /\ lastAdvance' = Ate(direction)
    /\ sparkles' = IF pc' = "spawning" THEN sparkles ELSE Fade(sparkles)
    /\ UNCHANGED <<state, gameMode, running, direction, menuVars, configVars,
                   seed, sparklesFollowed>>

\* the new head is on a free cell: the tail is removed
AdvanceMove ==
    /\ Advancing
    /\ LET newHead == NewHead(snake[1], direction)
       IN  /\ ~Collides(newHead, snake, obstacles)
           /\ ~FindsFood(foodItems, newHead)
           /\ snake' = PopBack(Insert(snake, newHead))
    /\ lastAdvance' = Moved(direction)
    /\ pc' = LoopTest(running, state)
    /\ sparkles' = Fade(sparkles)
    /\ UNCHANGED <<state, gameMode, running, foodItems, obstacles, direction,
                   score, highScore, menuVars, configVars, seed,
                   sparklesFollowed>>

\* ------------------------------------------------------------------------
\* handleEvents, run
\* ------------------------------------------------------------------------
KeyDown(key) ==
    /\ pc = "events"
    /\ onKeyDown(key)
    /\ UNCHANGED <<seed, sparkles, sparklesFollowed>>

\* event.type == SDL_QUIT
QuitEvent ==
    /\ pc = "events"
    /\ running' = FALSE
    /\ state' = QUIT
    /\ UNCHANGED <<gameMode, snake, foodItems, obstacles, direction, score,
                   highScore, menuVars, configVars, pc, lastAdvance, seed,
                   sparkles, sparklesFollowed>>

\* SDL_PollEvent returns 0: handleEvents returns and update() is next
EndEvents ==
    /\ pc = "events"
    /\ pc' = "update"
    /\ UNCHANGED <<state, gameMode, running, snake, foodItems, obstacles,
                   direction, score, highScore, menuVars, configVars,
                   lastAdvance, seed, sparkles, sparklesFollowed>>

\* ------------------------------------------------------------------------
\* Specifications
\* ------------------------------------------------------------------------
\* The play scenario: games are started with Start highlighted, played,
\* paused and left for the main menu; the highlight of the main menu is not
\* moved, so the configuration stays as Init draws it, and the window is
\* closed from the main menu.
PlayKey(key) == state = MAIN_MENU => key \notin {"UP", "DOWN"}

Next ==
    \/ \E key \in Keys : PlayKey(key) /\ KeyDown(key)
    \/ state = MAIN_MENU /\ QuitEvent
    \/ EndEvents
    \/ UpdateIdle
    \/ UpdateWait
    \/ AdvanceCollision
    \/ AdvanceEat
    \/ AdvanceMove

Spec == Init /\ [][Next]_vars

\* The menu scenario: every key in every state, except that no value is
\* adjusted in the configuration menu (LEFT and RIGHT are pressed there on
\* 'Back to Main Menu' only).  The board is empty, so no advance eats or
\* collides.
MenuKey(key) ==
    (state = CONFIG_MENU /\ key \in {"LEFT", "RIGHT"}) => configOption = EXIT

NextMenu ==
    \/ \E key \in Keys : MenuKey(key) /\ KeyDown(key)
    \/ QuitEvent
    \/ EndEvents
    \/ UpdateIdle
    \/ UpdateWait
    \/ AdvanceMove

SpecMenu == InitMenu /\ [][NextMenu]_vars

\* The dense scenario: the play scenario on a board with one food entry that
\* the spawner fills as far as its counts allow.
InitDense ==
    /\ Constructed
    /\ snakeSpeed = 1
    /\ numFoodItems = 1
    /\ numObstacles \in 0..MaxObstacles
    /\ grassWaveSpeed = 1
    /\ grassWaveAmplitude = 1
    /\ seed = DENSE
    /\ sparklesFollowed = FALSE

NextDense ==
    \/ \E key \in Keys : PlayKey(key) /\ KeyDown(key)
    \/ state = MAIN_MENU /\ QuitEvent
    \/ EndEvents
    \/ UpdateIdle
    \/ UpdateWait
    \/ AdvanceCollision
    \/ AdvanceEat
    \/ AdvanceMove

SpecDense == InitDense /\ [][NextDense]_vars

\* The board scenario: games with one food entry, and every key in every
\* state except that the highlight of the configuration menu is not moved
\* and no value is adjusted there.
InitBoard ==
    /\ Constructed
    /\ snakeSpeed = 1
    /\ numFoodItems = 1
    /\ numObstacles = 0
    /\ grassWaveSpeed = 1
    /\ grassWaveAmplitude = 1
    /\ seed = NARROW
    /\ sparklesFollowed = FALSE

BoardKey(key) == state = CONFIG_MENU => key \in {"ESCAPE", "RETURN", "OTHER"}

NextBoard ==
    \/ \E key \in Keys : BoardKey(key) /\ KeyDown(key)
    \/ QuitEvent
    \/ EndEvents
    \/ UpdateIdle
    \/ UpdateWait
    \/ AdvanceCollision
    \/ AdvanceEat
    \/ AdvanceMove

SpecBoard == InitBoard /\ [][NextBoard]_vars

\* The configuration scenario: the main menu and the configuration menu with
\* every key, from the largest configuration of the model; no game is
\* started and the mode menu is not entered.
InitConfig ==
    /\ Constructed
    /\ snakeSpeed = MaxSnakeSpeed
    /\ numFoodItems = MaxFood
    /\ numObstacles = MaxObstacles
    /\ grassWaveSpeed = MaxWaveSpeed
    /\ grassWaveAmplitude = MaxAmplitude
    /\ seed = NARROW
    /\ sparklesFollowed = FALSE

ConfigKey(key) ==
    (state = MAIN_MENU /\ key = "RETURN") => selectedOption \in {1, 3}

NextConfig ==
    \/ \E key \in Keys : ConfigKey(key) /\ KeyDown(key)
    \/ QuitEvent
    \/ EndEvents
    \/ UpdateIdle

SpecConfig == InitConfig /\ [][NextConfig]_vars

\* The tuning scenario: the food count and the obstacle count are adjusted in
\* the configuration menu between games; a game is started, paused, resumed
\* and left, and is not steered (the snake runs along the row of the
\* centre); the mode menu is not entered.
InitTune ==
    /\ Constructed
    /\ snakeSpeed = 1
    /\ numFoodItems = MaxFood
    /\ numObstacles = MaxObstacles
    /\ grassWaveSpeed = MaxWaveSpeed
    /\ grassWaveAmplitude = MaxAmplitude
    /\ seed = NARROW
    /\ sparklesFollowed = FALSE

TuneKey(key) ==
    /\ (state = MAIN_MENU /\ key = "RETURN") => selectedOption \in {0, 1, 3}
    /\ (state = CONFIG_MENU /\ key \in {"LEFT", "RIGHT"})
          => configOption \in {NUM_FOOD, NUM_OBSTACLES, EXIT}
    /\ state = PLAYING => key \in {"ESCAPE", "RETURN", "OTHER"}

NextTune ==
    \/ \E key \in Keys : TuneKey(key) /\ KeyDown(key)
    \/ state = MAIN_MENU /\ QuitEvent
    \/ EndEvents
    \/ UpdateIdle
    \/ UpdateWait
    \/ AdvanceCollision
    \/ AdvanceEat
    \/ AdvanceMove

SpecTune == InitTune /\ [][NextTune]_vars

\* The sparkles are kept: games without food, started with or without an
\* obstacle (the count is changed in the configuration menu between games),
\* the snake heading right.  A collision is followed while the list has room
\* for its burst.
InitSparkles ==
    /\ Constructed
    /\ snakeSpeed = 1
    /\ numFoodItems = 0
    /\ numObstacles = MaxObstacles
    /\ grassWaveSpeed = MaxWaveSpeed
    /\ grassWaveAmplitude = MaxAmplitude
    /\ seed = NARROW
    /\ sparklesFollowed = TRUE

\* the keys that lead from the main menu to a game and to the obstacle
\* count of the configuration menu
SparkleKey(key) ==
    /\ state = MAIN_MENU =>
          \/ key \in {"RETURN", "OTHER"}
          \/ key = "DOWN" /\ selectedOption = 0
          \/ key = "UP" /\ selectedOption = 1
    /\ state = CONFIG_MENU =>
          \/ key \in {"ESCAPE", "OTHER"}
          \/ key = "DOWN" /\ configOption < NUM_OBSTACLES
          \/ key \in {"LEFT", "RIGHT"} /\ configOption = NUM_OBSTACLES
    /\ state = PLAYING => key \in {"ESCAPE", "OTHER"}

NextSparkles ==
    \/ \E key \in Keys : SparkleKey(key) /\ KeyDown(key)
    \/ state = MAIN_MENU /\ QuitEvent
    \/ EndEvents
    \/ UpdateIdle
    \/ UpdateWait
    \/ Len(sparkles) < MaxBursts * SparklesPerBurst /\ AdvanceCollision
    \/ AdvanceMove

SpecSparkles == InitSparkles /\ [][NextSparkles]_vars

\* ------------------------------------------------------------------------
\* Steps of update() as the claims name them
\* ------------------------------------------------------------------------
\* an advance() that ends without a collision
AdvanceWithoutCollision == AdvanceEat \/ AdvanceMove
\* any advance()
AnyAdvance == AdvanceCollision \/ AdvanceEat \/ AdvanceMove
\* a handler that came back (it is not inside a spawn loop)
Returned == pc' # "spawning"

\* ------------------------------------------------------------------------
\* Claims, checked under Spec
\* ------------------------------------------------------------------------
\* C1: within a session the direction an advance applies is never the
\* opposite of the direction the preceding advance applied, whatever keys
\* are handled between the two.  (The code breaks this: two keys in one
\* frame, a perpendicular one and then the reverse one, are both accepted.)
C1_NeverReverses ==
    [][(AnyAdvance /\ lastAdvance.kind \in {"move", "eat"})
          => direction # Opposite(lastAdvance.dir)]_vars

\* C2: a collision detected by an advance resets the session in that update:
\* one segment at the centre cell, direction (1,0), score 0, as many food
\* entries and obstacle entries as configured, state still PLAYING.
C2_CollisionResets ==
    [][(AdvanceCollision /\ Returned)
          => /\ snake' = <<Centre>>
             /\ direction' = Point(1, 0)
             /\ score' = 0
             /\ Size(foodItems') = numFoodItems
             /\ Size(obstacles') = numObstacles
             /\ state' = PLAYING]_vars

\* a collision has reset a session that has food and an obstacle configured
C2_Witness ==
    /\ lastAdvance = Collided
    /\ state = PLAYING
    /\ numFoodItems > 0
    /\ numObstacles > 0
    /\ highScore > 0

\* C3: every snake segment lies on the canvas, x in [0, SCREEN_WIDTH) and
\* y in [0, SCREEN_HEIGHT), both multiples of GRID_SIZE, and the head is one
\* cell from the neck in the direction of the last advance, taken round the
\* edges: from x = SCREEN_WIDTH - GRID_SIZE moving right to x = 0, from x = 0
\* moving left to x = SCREEN_WIDTH - GRID_SIZE, and likewise vertically.
OnCanvas(p) ==
    /\ p.x \in 0..(SCREEN_WIDTH - 1)
    /\ p.y \in 0..(SCREEN_HEIGHT - 1)
    /\ p.x % GRID_SIZE = 0
    /\ p.y % GRID_SIZE = 0

C3_OnCanvas ==
    /\ \A i \in 1..Len(snake) : OnCanvas(snake[i])
    /\ (Len(snake) >= 2 /\ lastAdvance.kind \in {"move", "eat"})
          => /\ snake[1].x = (snake[2].x + lastAdvance.dir.x * GRID_SIZE) % SCREEN_WIDTH
             /\ snake[1].y = (snake[2].y + lastAdvance.dir.y * GRID_SIZE) % SCREEN_HEIGHT

\* the head has left the right edge and come back in on the left
C3_Witness ==
    /\ Len(snake) >= 2
    /\ lastAdvance = Moved(Point(1, 0))
    /\ snake[2].x = SCREEN_WIDTH - GRID_SIZE
    /\ snake[1].x = 0

\* C4: an advance without collision raises the score by exactly 1 and the
\* length by exactly 1 when the new head cell holds food, and leaves both as
\* they were otherwise; no step raises the score by more than 1.
C4_EatOnce ==
    [][/\ AdvanceWithoutCollision
          => IF foodItems[NewHead(snake[1], direction)] > 0
             THEN score' = score + 1 /\ Len(snake') = Len(snake) + 1
             ELSE score' = score /\ Len(snake') = Len(snake)
       /\ score' <= score + 1]_vars

\* food was eaten on a board configured with more than one food entry
C4_Witness ==
    /\ lastAdvance.kind = "eat"
    /\ score = 1
    /\ Len(snake) = 2
    /\ numFoodItems >= 2

\* C5: an advance that eats leaves as many food entries as configured and
\* five obstacle entries more than before; the number of obstacle entries
\* changes in no other step but a reset (a collision or Start).
C5_FoodAndObstacleCounts ==
    [][/\ (AdvanceEat /\ Returned)
          => /\ Size(foodItems') = numFoodItems
             /\ Size(obstacles') = Size(obstacles) + 5
       /\ Size(obstacles') # Size(obstacles)
          => \/ AdvanceEat
             \/ AdvanceCollision
             \/ (state = MAIN_MENU /\ KeyDown("RETURN"))]_vars

\* food was eaten on a board that had an obstacle
C5_Witness ==
    /\ lastAdvance.kind = "eat"
    /\ numObstacles > 0
    /\ numFoodItems > 0
    /\ Size(obstacles) = numObstacles + 5

\* C6: the snake cells, the food cells and the obstacle cells are pairwise
\* disjoint in every reachable state.
C6_Disjoint ==
    /\ SnakeCells(snake) \cap CellsOf(foodItems) = {}
    /\ SnakeCells(snake) \cap CellsOf(obstacles) = {}
    /\ CellsOf(foodItems) \cap CellsOf(obstacles) = {}

\* food and obstacles have been spawned again after an eat
C6_Witness ==
    /\ score = 1
    /\ Len(snake) = 2
    /\ CellsOf(foodItems) # {}
    /\ Size(obstacles) > 5

\* C7: the high score never decreases, and it is at least the score in
\* every reachable state.
C7_HighScore ==
    /\ [](highScore >= score)
    /\ [][highScore' >= highScore]_vars

\* a session ended with a score and the next one is being played
C7_Witness ==
    /\ highScore > score
    /\ state = PLAYING
    /\ lastAdvance.kind = "move"

\* C8: with a movement interval of zero or less the snake advances in every
\* frame whose update finds the state PLAYING.  (The code compares with
\* (Uint32)snakeSpeed, which for a negative interval is close to 2^32: the
\* snake then waits in nearly every frame.)
C8_AdvancesEveryFrame ==
    [][(pc = "update" /\ state = PLAYING /\ snakeSpeed <= 0) => AnyAdvance]_vars

\* C14: while PLAYING a directional key sets the direction to the unit
\* vector of the key exactly when the key's axis is not the axis of the
\* current direction, and leaves the direction as it is otherwise; the
\* direction is one of (1,0), (-1,0), (0,1), (0,-1) in every reachable state.
UnitOf(key) ==
    CASE key = "UP" -> Point(0, 0 - 1)
      [] key = "DOWN" -> Point(0, 1)
      [] key = "LEFT" -> Point(0 - 1, 0)
      [] key = "RIGHT" -> Point(1, 0)

Horizontal == {Point(1, 0), Point(0 - 1, 0)}
Vertical == {Point(0, 1), Point(0, 0 - 1)}

AxisDiffers(key, dir) ==
    IF key \in {"UP", "DOWN"} THEN dir \in Horizontal ELSE dir \in Vertical

\* the key can be handled, and handling it always leaves the direction at target
SteerLeadsTo(key, target) ==
    /\ ENABLED (KeyDown(key) /\ direction' = target)
    /\ ~ENABLED (KeyDown(key) /\ direction' # target)

C14_Steering ==
    /\ direction \in Horizontal \cup Vertical
    /\ (pc = "events" /\ state = PLAYING) =>
          \A key \in {"UP", "DOWN", "LEFT", "RIGHT"} :
              SteerLeadsTo(key, IF AxisDiffers(key, direction)
                                THEN UnitOf(key) ELSE direction)

\* a key is awaited while the snake is moving down
C14_Witness ==
    /\ pc = "events"
    /\ state = PLAYING
    /\ direction = Point(0, 1)
    /\ lastAdvance = Moved(Point(0, 1))

\* C15: no two snake segments are on the same cell in any reachable state,
\* and an advance whose new head is on a segment inserts nothing: it is a
\* collision, which leaves the one-segment snake of the reset.
C15_NoSelfOverlap ==
    /\ [](\A i, j \in 1..Len(snake) : i # j => snake[i] # snake[j])
    /\ [][(AnyAdvance /\ NewHead(snake[1], direction) \in SnakeCells(snake))
             => /\ AdvanceCollision
                /\ snake' = <<Centre>>]_vars

\* a snake that had grown has run into itself and the session was reset
C15_Witness ==
    /\ lastAdvance = CollidedWithItself
    /\ state = PLAYING
    /\ snake = <<Centre>>
    /\ highScore > 0

\* C17: the food entries are on pairwise distinct cells, so that there are as
\* many food cells as food entries configured, once a game has been started.
\* (The code tests a drawn food cell against the snake and the obstacles
\* only: two entries of one spawn can share a cell.)
C17_FoodIsASet ==
    (snake # <<>> /\ pc # "spawning") =>
        /\ \A c \in Cells : foodItems[c] <= 1
        /\ Cardinality(CellsOf(foodItems)) = numFoodItems

\* C18: every step from MAIN_MENU to PLAYING is RETURN on Start and begins a
\* fresh session, whatever was played before: one segment at the centre,
\* direction (1,0), score 0, as many food and obstacle entries as are
\* configured; the high score is kept.
C18_StartIsFresh ==
    [][(state = MAIN_MENU /\ state' = PLAYING /\ Returned)
          => /\ KeyDown("RETURN")
             /\ selectedOption = 0
             /\ snake' = <<Centre>>
             /\ direction' = Point(1, 0)
             /\ score' = 0
             /\ Size(foodItems') = numFoodItems'
             /\ Size(obstacles') = numObstacles'
             /\ highScore' = highScore]_vars

\* a game has been started after one that had scored
C18_Witness ==
    /\ state = PLAYING
    /\ lastAdvance = NoAdvance
    /\ highScore > 0
    /\ numObstacles > 0
    /\ numFoodItems > 0

\* ------------------------------------------------------------------------
\* Claims, checked under SpecMenu
\* ------------------------------------------------------------------------
\* RETURN can be handled, and handling it always leaves the state at target
ConfirmLeadsTo(target) ==
    /\ ENABLED (KeyDown("RETURN") /\ state' = target)
    /\ ~ENABLED (KeyDown("RETURN") /\ state' # target)

\* RETURN can be handled, and handling it changes nothing
ConfirmDoesNothing ==
    /\ ENABLED (KeyDown("RETURN") /\ UNCHANGED vars)
    /\ ~ENABLED (KeyDown("RETURN") /\ vars' # vars)

\* what confirm does in the main menu, the pause menu and the mode menu
ConfirmInMainPauseMode ==
    /\ state = MAIN_MENU =>
          ConfirmLeadsTo(CASE selectedOption = 0 -> PLAYING
                           [] selectedOption = 1 -> CONFIG_MENU
                           [] selectedOption = 2 -> MODE_MENU
                           [] OTHER -> QUIT)
    /\ state = PAUSED =>
          ConfirmLeadsTo(IF pauseMenuOption = 0 THEN PLAYING ELSE MAIN_MENU)
    /\ state = MODE_MENU =>
          /\ ConfirmLeadsTo(MAIN_MENU)
          /\ ~ENABLED (KeyDown("RETURN") /\
                       gameMode' # (IF modeMenuOption = 0 THEN NORMAL ELSE FLASHLIGHT))

\* C9, as claimed: in every state with a highlighted item RETURN triggers the
\* action of that item; in CONFIG_MENU with 'Back to Main Menu' highlighted
\* it moves the state to MAIN_MENU.
C9_ConfirmTriggersHighlighted ==
    pc = "events" =>
       /\ ConfirmInMainPauseMode
       /\ (state = CONFIG_MENU /\ configOption = EXIT) => ConfirmLeadsTo(MAIN_MENU)

\* C9, amended: in MAIN_MENU, MODE_MENU and PAUSED RETURN triggers the action
\* of the highlighted item; in CONFIG_MENU RETURN changes nothing, and 'Back
\* to Main Menu' is triggered by LEFT or RIGHT (or left by ESCAPE).
C9_ConfirmAmended ==
    pc = "events" =>
       /\ ConfirmInMainPauseMode
       /\ state = CONFIG_MENU => ConfirmDoesNothing
       /\ (state = CONFIG_MENU /\ configOption = EXIT) =>
             /\ ENABLED (KeyDown("LEFT") /\ state' = MAIN_MENU)
             /\ ENABLED (KeyDown("RIGHT") /\ state' = MAIN_MENU)
             /\ ~ENABLED (\E key \in {"LEFT", "RIGHT", "ESCAPE"} :
                             KeyDown(key) /\ state' # MAIN_MENU)

\* 'Back to Main Menu' is highlighted after a mode was confirmed and a game
\* was started and left through the pause menu
C9_Witness ==
    /\ pc = "events"
    /\ state = CONFIG_MENU
    /\ configOption = EXIT
    /\ gameMode = FLASHLIGHT
    /\ pauseMenuOption = 1
    /\ snake # <<>>

\* C10: in MAIN_MENU confirm moves the state to PLAYING on item 0, to
\* CONFIG_MENU on item 1, to MODE_MENU on item 2 and to QUIT on item 3, and
\* no other key makes the state leave MAIN_MENU.
C10_MainMenu ==
    (pc = "events" /\ state = MAIN_MENU) =>
       /\ selectedOption = 0 => ConfirmLeadsTo(PLAYING)
       /\ selectedOption = 1 => ConfirmLeadsTo(CONFIG_MENU)
       /\ selectedOption = 2 => ConfirmLeadsTo(MODE_MENU)
       /\ selectedOption = 3 => ConfirmLeadsTo(QUIT)
       /\ selectedOption \in 0..3
       /\ ~ENABLED (\E key \in Keys \ {"RETURN"} :
                       KeyDown(key) /\ state' # MAIN_MENU)

\* Quit was confirmed in a run that had also confirmed Start, Config and
\* Game Mode
C10_Witness ==
    /\ state = QUIT
    /\ running
    /\ snake # <<>>
    /\ configOption # 0
    /\ gameMode = FLASHLIGHT

\* ESCAPE can be handled, and handling it always leaves the state at target
EscapeLeadsTo(target) ==
    /\ ENABLED (KeyDown("ESCAPE") /\ state' = target)
    /\ ~ENABLED (KeyDown("ESCAPE") /\ state' # target)

\* C11: ESCAPE moves PLAYING to PAUSED, PAUSED to PLAYING, and CONFIG_MENU
\* and MODE_MENU to MAIN_MENU; RETURN while PAUSED moves to PLAYING on item
\* 0 and to MAIN_MENU on item 1; one step from PAUSED leads to PLAYING,
\* MAIN_MENU or QUIT only (or stays), and to QUIT by no key.
C11_CancelAndPause ==
    /\ pc = "events" =>
          /\ state = PLAYING => EscapeLeadsTo(PAUSED)
          /\ state = PAUSED => EscapeLeadsTo(PLAYING)
          /\ (state = PAUSED /\ pauseMenuOption = 0) => ConfirmLeadsTo(PLAYING)
          /\ (state = PAUSED /\ pauseMenuOption = 1) => ConfirmLeadsTo(MAIN_MENU)
          /\ state \in {CONFIG_MENU, MODE_MENU} => EscapeLeadsTo(MAIN_MENU)
    /\ state = PAUSED =>
          /\ ~ENABLED (NextMenu /\ state' \notin {PAUSED, PLAYING, MAIN_MENU, QUIT})
          /\ ~ENABLED ((\E key \in Keys : KeyDown(key)) /\ state' = QUIT)

\* a game that has advanced is paused with 'Main Menu' highlighted
C11_Witness ==
    /\ pc = "events"
    /\ state = PAUSED
    /\ pauseMenuOption = 1
    /\ Len(snake) = 1
    /\ snake[1] # Centre

\* C12: a close request can be handled in every state and sets the state to
\* QUIT; from QUIT no step changes the state, the session, the menus or the
\* configuration; the update of the frame that set QUIT ends the loop, and
\* nothing runs after the loop.
C12_QuitIsTerminal ==
    /\ [](pc = "events" => /\ ENABLED (QuitEvent /\ state' = QUIT)
                           /\ ~ENABLED (QuitEvent /\ state' # QUIT))
    /\ [][/\ state = QUIT =>
                /\ state' = QUIT
                /\ UNCHANGED <<snake, foodItems, obstacles, direction, score,
                               highScore, gameMode, menuVars, configVars>>
                /\ pc = "update" => pc' = "done"
          /\ pc # "done"]_vars

\* the loop has ended after Quit was confirmed in the main menu, after a game
C12_Witness ==
    /\ pc = "done"
    /\ state = QUIT
    /\ running
    /\ snake # <<>>
    /\ selectedOption = 3

\* the key can be handled, and handling it always leaves the four menu
\* indices at idx
IndexLeadsTo(key, idx) ==
    /\ ENABLED (KeyDown(key) /\ menuVars' = idx)
    /\ ~ENABLED (KeyDown(key) /\ menuVars' # idx)

\* the indices after UP and after DOWN in a menu of n items whose index is
\* the k-th of the four
UpAndDownWrap(k, n) ==
    /\ IndexLeadsTo("UP", [menuVars EXCEPT ![k] = (@ + n - 1) % n])
    /\ IndexLeadsTo("DOWN", [menuVars EXCEPT ![k] = (@ + 1) % n])

\* C19: the highlighted indices stay in range (main menu 0..3, configuration
\* menu 0..5, pause and mode menu 0..1); UP and DOWN move the index of the
\* menu shown by one modulo its item count (UP from 0 to the last item, DOWN
\* from the last item to 0) and no other index; UP followed by DOWN, and
\* DOWN followed by UP, restore the index.
C19_MenuIndicesWrap ==
    /\ selectedOption \in 0..3
    /\ pauseMenuOption \in 0..1
    /\ configOption \in 0..5
    /\ modeMenuOption \in 0..1
    /\ pc = "events" =>
          /\ state = MAIN_MENU => UpAndDownWrap(1, 4)
          /\ state = PAUSED => UpAndDownWrap(2, 2)
          /\ state = CONFIG_MENU => UpAndDownWrap(3, 6)
          /\ state = MODE_MENU => UpAndDownWrap(4, 2)
    /\ LET up == IndexUp(state, selectedOption, pauseMenuOption, configOption,
                         modeMenuOption)
           down == IndexDown(state, selectedOption, pauseMenuOption,
                             configOption, modeMenuOption)
       IN  /\ IndexDown(state, up[1], up[2], up[3], up[4]) = menuVars
           /\ IndexUp(state, down[1], down[2], down[3], down[4]) = menuVars

\* the last item of the configuration menu is highlighted, and the other
\* menus have been moved as well
C19_Witness ==
    /\ pc = "events"
    /\ state = CONFIG_MENU
    /\ configOption = 5
    /\ selectedOption = 1
    /\ pauseMenuOption = 1
    /\ modeMenuOption = 1

\* ------------------------------------------------------------------------
\* Claims, checked under SpecBoard
\* ------------------------------------------------------------------------
\* the session as the claims name it
Session == <<snake, foodItems, obstacles, score, direction>>

\* any key event and any outcome of the frame's update
KeyOrUpdate ==
    \/ \E key \in Keys : KeyDown(key)
    \/ UpdateIdle
    \/ UpdateWait
    \/ AnyAdvance

\* C13: while the state is PAUSED, CONFIG_MENU or MODE_MENU no key event and
\* no update changes the snake, the food list, the obstacle list, the score
\* or the direction, and neither does the key that pauses; so a game that is
\* paused and resumed goes on with the session it was paused with.
C13_MenusKeepSession ==
    /\ [](state \in {PAUSED, CONFIG_MENU, MODE_MENU}
             => ~ENABLED (KeyOrUpdate /\ Session' # Session))
    /\ [][(state \in {PAUSED, CONFIG_MENU, MODE_MENU}
              \/ (state = PLAYING /\ state' = PAUSED))
             => UNCHANGED Session]_vars

\* the update of a frame is due while a game that has eaten is paused, in a
\* run that has been through the mode menu
C13_Witness ==
    /\ pc = "update"
    /\ state = PAUSED
    /\ score = 1
    /\ Len(snake) = 2
    /\ Size(obstacles) = 5
    /\ direction # Point(1, 0)
    /\ gameMode = FLASHLIGHT

\* ------------------------------------------------------------------------
\* Claims, checked under SpecDense
\* ------------------------------------------------------------------------
\* C16: no spawn is entered without a cell that passes its test, so that no
\* handler stays inside a spawn loop.  (The code has no such guarantee: once
\* the snake and the obstacles are on every cell, spawnFood never returns.)
C16_SpawnTerminates == pc # "spawning"

\* ------------------------------------------------------------------------
\* Claims, checked under SpecConfig
\* ------------------------------------------------------------------------
\* the key can be handled, and handling it always leaves snakeSpeed at v
SpeedLeadsTo(key, v) ==
    /\ ENABLED (KeyDown(key) /\ snakeSpeed' = v)
    /\ ~ENABLED (KeyDown(key) /\ snakeSpeed' # v)

\* C20: with the speed item highlighted in the configuration menu, RIGHT
\* lowers the movement interval by 1 while it is greater than 1 and sets it
\* to -20 from 1 or less (from -20 as well); LEFT adds 1, from every value
\* below the largest of the model; the interval is never below -20.
C20_SpeedAdjust ==
    /\ snakeSpeed >= 0 - 20
    /\ (pc = "events" /\ state = CONFIG_MENU /\ configOption = 0) =>
          /\ snakeSpeed > 1 => SpeedLeadsTo("RIGHT", snakeSpeed - 1)
          /\ snakeSpeed <= 1 => SpeedLeadsTo("RIGHT", 0 - 20)
          /\ snakeSpeed < MaxSnakeSpeed => SpeedLeadsTo("LEFT", snakeSpeed + 1)
          /\ ~ENABLED (KeyDown("LEFT") /\ snakeSpeed' # snakeSpeed + 1)

\* the interval was slowed down by one from the sentinel
C20_Witness ==
    /\ pc = "events"
    /\ state = CONFIG_MENU
    /\ configOption = 0
    /\ snakeSpeed = 0 - 19

\* the value a key leads to: the key can be handled, and handling it always
\* leaves the k-th configuration value at v
ValueLeadsTo(key, k, v) ==
    /\ ENABLED (KeyDown(key) /\ ConfigValues'[k] = v)
    /\ ~ENABLED (KeyDown(key) /\ ConfigValues'[k] # v)

\* C22: the food count, the obstacle count, the grass amplitude and the
\* grass wave speed are never negative; LEFT on a value that is 0 leaves it
\* at 0.
C22_NeverNegative ==
    /\ numFoodItems >= 0
    /\ numObstacles >= 0
    /\ grassWaveAmplitude >= 0
    /\ grassWaveSpeed >= 0
    /\ (pc = "events" /\ state = CONFIG_MENU) =>
          \A k \in 2..5 :
              (configOption = k - 1 /\ ConfigValues[k] = 0)
                 => ValueLeadsTo("LEFT", k, 0)

\* the four values have all been brought down to 0
C22_Witness ==
    /\ pc = "events"
    /\ state = CONFIG_MENU
    /\ numFoodItems = 0
    /\ numObstacles = 0
    /\ grassWaveAmplitude = 0
    /\ grassWaveSpeed = 0

\* ------------------------------------------------------------------------
\* Claims, checked under SpecTune
\* ------------------------------------------------------------------------
\* any step of the handlers and of the loop
AnyStep ==
    \/ KeyOrUpdate
    \/ QuitEvent
    \/ EndEvents

\* LEFT or RIGHT handled while the configuration menu is shown
Adjusts ==
    /\ state = CONFIG_MENU
    /\ KeyDown("LEFT") \/ KeyDown("RIGHT")

\* a configuration value other than that of the highlighted item changes
OtherValueChanges ==
    \E k \in 1..5 : k # configOption + 1 /\ ConfigValues'[k] # ConfigValues[k]

\* C21: the five configuration values change in no step but LEFT or RIGHT
\* handled in CONFIG_MENU, and such a step changes the value of the
\* highlighted item only; no other key, state or step of update() changes
\* them.
C21_ConfigChangesOnlyInMenu ==
    /\ [](~ENABLED (AnyStep /\ ConfigValues' # ConfigValues /\ ~Adjusts))
    /\ [](~ENABLED (AnyStep /\ OtherValueChanges))
    /\ [][ConfigValues' # ConfigValues => (Adjusts /\ ~OtherValueChanges)]_vars

\* a game is played and has eaten after both counts were lowered in the menu
C21_Witness ==
    /\ state = PLAYING
    /\ numFoodItems = 1
    /\ numObstacles = 0
    /\ score = 1
    /\ configOption = NUM_OBSTACLES

\* ------------------------------------------------------------------------
\* Further claims, checked under SpecBoard
\* ------------------------------------------------------------------------
\* RETURN handled while the mode menu is shown: it commits the mode of the
\* highlighted item (0 Normal, 1 Flashlight) and shows the main menu
ConfirmsMode ==
    /\ state = MODE_MENU
    /\ KeyDown("RETURN")
    /\ gameMode' = (IF modeMenuOption = 0 THEN NORMAL ELSE FLASHLIGHT)
    /\ state' = MAIN_MENU

\* C23: the game mode changes only when RETURN is handled in MODE_MENU; that
\* key sets the mode of the highlighted index (0 Normal, 1 Flashlight) and
\* moves to MAIN_MENU; UP, DOWN, ESCAPE and every other step leave the mode
\* unchanged.
C23_ModeChangesOnConfirm ==
    /\ [](~ENABLED (AnyStep /\ gameMode' # gameMode /\ ~ConfirmsMode))
    /\ []((pc = "events" /\ state = MODE_MENU) =>
             /\ ENABLED ConfirmsMode
             /\ ~ENABLED (KeyDown("RETURN") /\ ~ConfirmsMode)
             /\ \A key \in {"UP", "DOWN", "ESCAPE"} :
                   ~ENABLED (KeyDown(key) /\ gameMode' # gameMode))
    /\ [][gameMode' # gameMode => ConfirmsMode]_vars

\* a game is played in Flashlight mode, chosen in the mode menu
C23_Witness ==
    /\ state = PLAYING
    /\ gameMode = FLASHLIGHT
    /\ modeMenuOption = 1
    /\ score = 1

\* ------------------------------------------------------------------------
\* Further claims, checked under Spec
\* ------------------------------------------------------------------------
\* the advance of this frame puts the new head on the cell of the last segment
HeadMeetsTail ==
    /\ Advancing
    /\ Len(snake) >= 2
    /\ NewHead(snake[1], direction) = snake[Len(snake)]

\* C25: an advance whose new head is on the cell the tail occupies is a
\* collision: the tail is not taken away first, nothing is inserted and the
\* game is reset.
C25_TailIsCollision ==
    /\ [](HeadMeetsTail => ~ENABLED AdvanceWithoutCollision)
    /\ [][(AnyAdvance /\ HeadMeetsTail)
             => /\ AdvanceCollision
                /\ snake' = <<Centre>>
                /\ score' = 0
                /\ lastAdvance' = CollidedWithItself]_vars

\* a snake that never had more than two segments has run into itself: the
\* segment it met was its tail
C25_Witness ==
    /\ lastAdvance = CollidedWithItself
    /\ highScore = 1
    /\ snake = <<Centre>>
    /\ score = 0

\* C26: once a game has been started the snake has at least one segment, in
\* every state from then on, and it has as many segments as the score plus
\* one.
C26_LengthIsScorePlusOne ==
    /\ [](state \in {PLAYING, PAUSED} => snake # <<>>)
    /\ [](snake # <<>> => Len(snake) = score + 1)
    /\ [][snake # <<>> => snake' # <<>>]_vars

\* a game that has eaten twice is paused
C26_Witness ==
    /\ state = PAUSED
    /\ score = 2
    /\ Len(snake) = 3
    /\ lastAdvance # NoAdvance

\* ------------------------------------------------------------------------
\* Further claims, checked under SpecTune
\* ------------------------------------------------------------------------
\* C27: while the state is PLAYING or PAUSED the food list has as many
\* entries as the configured food count, and the obstacle list as many as
\* the configured obstacle count plus five for each point of the score.
\* (Between handlers: a handler inside a spawn loop that does not end, C16,
\* has not come back.)
C27_EntityCounts ==
    (state \in {PLAYING, PAUSED} /\ pc # "spawning") =>
        /\ Size(foodItems) = numFoodItems
        /\ Size(obstacles) = numObstacles + ObstaclesPerFood * score

\* a game started after the food count was lowered in the menu has eaten
C27_Witness ==
    /\ state \in {PLAYING, PAUSED}
    /\ pc # "spawning"
    /\ numFoodItems = 1
    /\ numObstacles = MaxObstacles
    /\ score = 1
    /\ Size(obstacles) = MaxObstacles + 5

\* ------------------------------------------------------------------------
\* Further claims, checked under SpecBoard
\* ------------------------------------------------------------------------
\* C28: every step that enters PAUSED from PLAYING leaves the session as it
\* was and the pause menu with item 0 ('Resume') highlighted, so that RETURN
\* as the next key resumes the game.
C28_PauseHighlightsResume ==
    [][(state = PLAYING /\ state' = PAUSED)
          => /\ KeyDown("ESCAPE")
             /\ UNCHANGED Session
             /\ pauseMenuOption' = 0]_vars

\* ------------------------------------------------------------------------
\* Claims, checked under SpecSparkles
\* ------------------------------------------------------------------------
\* the update() of a frame: the step that leaves "update"
FrameUpdate == pc = "update" /\ pc' # "update"

\* the sparkles this snake's collision adds
BurstOf(head) == Burst(<<>>, head)

\* C24: a collision adds exactly 20 sparkles of life 1.0 at the centre of the
\* cell the head was on before the reset; the update() of every frame takes
\* one step of life from each sparkle there was and removes those that reach
\* zero; the life of a stored sparkle is in (0, 1].
C24_SparklesFade ==
    /\ [](\A i \in 1..Len(sparkles) : sparkles[i].life \in 1..FullLife)
    /\ [][AdvanceCollision
             => /\ Len(sparkles') = Len(sparkles) + 20
                /\ SubSeq(sparkles', Len(sparkles) + 1, Len(sparkles'))
                      = BurstOf(snake[1])]_vars
    /\ [][FrameUpdate
             => /\ Len(sparkles') >= Len(Fade(sparkles))
                /\ SubSeq(sparkles', 1, Len(Fade(sparkles)))
                      = Fade(sparkles)]_vars

====
